---- MODULE Spec2Model ----
(***************************************************************************)
(* A state-machine model of e2fsck/e2fsck.c: option parsing (PRS), the     *)
(* mount check, the open/restart loop of main, check_super_block,          *)
(* check_if_skip, the five passes (external) and the finalization.         *)
(*                                                                         *)
(* Functions whose bodies are not part of e2fsck.c (ask, preenhalt,        *)
(* fatal_error, allocate_memory, the ext2fs_* library and the passes) are  *)
(* modelled at their interface; each such definition says so.              *)
(***************************************************************************)
EXTENDS Integers, Sequences, FiniteSets, TLC

(***************************************************************************)
(* Bounds of the model.                                                    *)
(***************************************************************************)
\* longest option list given on the command line
MaxArgs == 2
\* most restarts pass 1 requests in one run
MaxRestarts == 1
\* most fields of an image that differ from a well-formed image
MaxBad == 2
\* largest mount count stored in a superblock
MaxMnt == 2
\* largest clock value / timestamp
MaxTime == 3

(***************************************************************************)
(* Program constants.                                                      *)
(***************************************************************************)
\* e2fsck.c:206-207
MIN_CHECK == 1
MAX_CHECK == 2
\* values of the static flags of e2fsck.c:72-73; no statement of the file
\* assigns either of them
root_filesystem == 0
read_only_root == 0
\* exit codes (e2fsck.h; the values are those of the interface description)
FSCK_OK == 0
FSCK_NONDESTRUCT == 1
FSCK_REBOOT == 2
FSCK_UNCORRECTED == 4
FSCK_ERROR == 8
FSCK_USAGE == 16
\* smallest block size, the unit of EXT2_BLOCK_SIZE (first entry of
\* possible_block_sizes, e2fsck.c:68)
EXT2_MIN_BLOCK_SIZE == 1024

\* bits of s_state, kept as a set of flag names
EXT2_VALID_FS == "VALID_FS"
EXT2_ERROR_FS == "ERROR_FS"

\* EXT2_BLOCK_SIZE(s) and EXT2_FRAG_SIZE(s): 1024 << exponent
EXT2_BLOCK_SIZE(s) == EXT2_MIN_BLOCK_SIZE * (2 ^ s.s_log_block_size)

\* flags & bit, for the two check_super_value flag bits
HasBit(flags, bit) == (flags \div bit) % 2 = 1

(***************************************************************************)
(* Pure parts of check_super_block.                                        *)
(***************************************************************************)
\* check_super_value without the MIN_CHECK test
check_super_value_noMin(value, flags, min, max) ==
    HasBit(flags, MAX_CHECK) /\ value > max

\* check_super_value: TRUE iff it reports corruption and calls fatal_error
check_super_value(value, flags, min, max) ==
    \/ HasBit(flags, MIN_CHECK) /\ value < min
    \/ HasBit(flags, MAX_CHECK) /\ value > max

\* The nine check_super_value calls of check_super_block, in order: the
\* description of the first value found corrupt, or "" when none is.
SuperValueCorrupt(s) ==
    IF check_super_value(s.s_inodes_count, MIN_CHECK, 1, 0)
      THEN "inodes_count"
    ELSE IF check_super_value(s.s_blocks_count, MIN_CHECK, 1, 0)
      THEN "blocks_count"
    ELSE IF check_super_value(s.s_first_data_block, MAX_CHECK, 0,
                              s.s_blocks_count)
      THEN "first_data_block"
    ELSE IF check_super_value(s.s_log_frag_size, MAX_CHECK, 0, 2)
      THEN "log_frag_size"
    ELSE IF check_super_value(s.s_log_block_size, MIN_CHECK + MAX_CHECK,
                              s.s_log_frag_size, 2)
      THEN "log_block_size"
    ELSE IF check_super_value(s.s_frags_per_group, MIN_CHECK + MAX_CHECK, 1,
                              8 * EXT2_BLOCK_SIZE(s))
      THEN "frags_per_group"
    ELSE IF check_super_value(s.s_blocks_per_group, MIN_CHECK + MAX_CHECK, 1,
                              8 * EXT2_BLOCK_SIZE(s))
      THEN "blocks_per_group"
    ELSE IF check_super_value(s.s_inodes_per_group, MIN_CHECK, 1, 0)
      THEN "inodes_per_group"
    ELSE IF check_super_value(s.s_r_blocks_count, MAX_CHECK, 0,
                              s.s_blocks_count)
      THEN "r_blocks_count"
    ELSE ""

\* e2fsck.c:294-320, reached with the nine values accepted: the name of
\* the first derived-value test that fails, or "".
DerivedCorrupt(s) ==
    IF s.s_log_block_size # s.s_log_frag_size
      THEN "fragsize"
    ELSE IF s.s_blocks_per_group #
            s.s_frags_per_group \div
               (s.s_log_block_size - s.s_log_frag_size + 1)
      THEN "blocks_per_group should have been"
    ELSE IF s.s_first_data_block # (IF s.s_log_block_size = 0 THEN 1 ELSE 0)
      THEN "first_data_block should have been"
    ELSE ""

\* the group-descriptor fields in the order check_super_block tests them
Kinds == <<"bg_block_bitmap", "bg_inode_bitmap", "bg_inode_table">>

\* the range tests with <= in place of < at the lower end
NotInGroup_offByOne(kind, ptr, first, last, ibpg) ==
    IF kind = "bg_inode_table"
      THEN ptr <= first \/ ptr + ibpg - 1 >= last
      ELSE ptr <= first \/ ptr >= last

\* the range tests with the inode table's end taken one block too far
NotInGroup_tableEnd(kind, ptr, first, last, ibpg) ==
    IF kind = "bg_inode_table"
      THEN ptr < first \/ ptr + ibpg >= last
      ELSE ptr < first \/ ptr >= last

\* the three range tests of e2fsck.c:331-332, 345-346, 359-361
NotInGroup(kind, ptr, first, last, ibpg) ==
    IF kind = "bg_inode_table"
      THEN ptr < first \/ ptr + ibpg - 1 >= last
      ELSE ptr < first \/ ptr >= last

\* the message printed for an out-of-range field
NotInGroupMsg(kind) ==
    CASE kind = "bg_block_bitmap" -> "Block bitmap for group is not in group"
      [] kind = "bg_inode_bitmap" -> "Inode bitmap group not in group"
      [] kind = "bg_inode_table"  -> "Inode table for group not in group"

\* e2fsck.c:329-330: the last group ends at s_blocks_count
LastBlockOf(i, count, last, s) ==
    IF i = count - 1 THEN s.s_blocks_count ELSE last

(***************************************************************************)
(* Pure part of check_if_skip.                                             *)
(***************************************************************************)
\* s_mnt_count >= (unsigned) s_max_mnt_count: a negative maximum converts
\* to a value above every 16-bit mount count
MntCountReached(mnt, max) == IF max < 0 THEN FALSE ELSE mnt >= max

\* the reason chain with the mount-count test placed first
SkipReason_mntFirst(s, now) ==
    IF MntCountReached(s.s_mnt_count, s.s_max_mnt_count)
      THEN "has reached maximal mount count"
    ELSE IF EXT2_ERROR_FS \in s.s_state
      THEN "contains a file system with errors"
    ELSE IF s.s_checkinterval # 0 /\ now >= s.s_lastcheck + s.s_checkinterval
      THEN "has gone too long without being checked"
    ELSE ""

\* e2fsck.c:393-401: the reason a check is forced, or "" (NULL)
SkipReason(s, now) ==
    IF EXT2_ERROR_FS \in s.s_state
      THEN "contains a file system with errors"
    ELSE IF MntCountReached(s.s_mnt_count, s.s_max_mnt_count)
      THEN "has reached maximal mount count"
    ELSE IF s.s_checkinterval # 0 /\ now >= s.s_lastcheck + s.s_checkinterval
      THEN "has gone too long without being checked"
    ELSE ""

(***************************************************************************)
(* Pure part of the finalization of main.                                  *)
(***************************************************************************)
\* the exit value without the test of e2fsck.c:698-699
ExitValue_noValidTest(changed, valid) ==
    IF changed
      THEN IF root_filesystem # 0 /\ read_only_root = 0
             THEN FSCK_REBOOT ELSE FSCK_NONDESTRUCT
      ELSE FSCK_OK

\* e2fsck.c:688-699
ExitValue(changed, valid) ==
    LET modified_value ==
          IF changed
            THEN IF root_filesystem # 0 /\ read_only_root = 0
                   THEN FSCK_REBOOT ELSE FSCK_NONDESTRUCT
            ELSE FSCK_OK
    IN  IF ~valid THEN FSCK_UNCORRECTED ELSE modified_value

(***************************************************************************)
(* Option parsing (PRS).                                                   *)
(***************************************************************************)
\* the option letters the model gives on the command line; "?" stands for
\* a letter getopt does not know
Options == {"p", "n", "y", "f", "c", "l", "b", "?"}

\* the option globals before PRS (e2fsck.c:49-66)
InitialOpts ==
    [preen |-> 0, nflag |-> 0, yflag |-> 0, force |-> 0, cflag |-> 0,
     bad_blocks_file |-> 0, superblock |-> 0, usage |-> FALSE]

\* the switch of e2fsck.c:448-520 for one option, with the assignments
\* that clear the other two mode flags left out
ParseOne_noClear(o, c) ==
    IF o.usage THEN o
    ELSE CASE c = "p" -> [o EXCEPT !.preen = 1]
           [] c = "n" -> [o EXCEPT !.nflag = 1]
           [] c = "y" -> [o EXCEPT !.yflag = 1]
           [] c = "f" -> [o EXCEPT !.force = 1]
           [] c = "c" -> [o EXCEPT !.cflag = o.cflag + 1]
           [] c = "l" -> [o EXCEPT !.bad_blocks_file = 1]
           [] c = "b" -> [o EXCEPT !.superblock = 1]
           [] OTHER   -> [o EXCEPT !.usage = TRUE]

\* the switch of e2fsck.c:448-520 for one option; usage() ends the run
ParseOne(o, c) ==
    IF o.usage THEN o
    ELSE CASE c = "p" -> [o EXCEPT !.preen = 1, !.yflag = 0, !.nflag = 0]
           [] c = "n" -> [o EXCEPT !.nflag = 1, !.preen = 0, !.yflag = 0]
           [] c = "y" -> [o EXCEPT !.yflag = 1, !.preen = 0, !.nflag = 0]
           [] c = "f" -> [o EXCEPT !.force = 1]
           [] c = "c" -> [o EXCEPT !.cflag = o.cflag + 1]
           [] c = "l" -> [o EXCEPT !.bad_blocks_file = 1]
           [] c = "b" -> [o EXCEPT !.superblock = 1]
           [] OTHER   -> [o EXCEPT !.usage = TRUE]

\* the getopt loop of e2fsck.c:447
RECURSIVE ParseOpts(_, _)
ParseOpts(o, args) ==
    IF args = <<>> THEN o ELSE ParseOpts(ParseOne(o, Head(args)), Tail(args))

\* e2fsck.c:525-526
RwFlag(o) == IF o.nflag # 0 /\ o.bad_blocks_file = 0 /\ o.cflag = 0 THEN 0 ELSE 1

(***************************************************************************)
(* Filesystem images: the superblock and group descriptors ext2fs_open     *)
(* reads, and fs->inode_blocks_per_group as the library derives it.        *)
(***************************************************************************)
\* 1k blocks, first data block 1, two groups [1,5) and [5,7): the final
\* group is narrower than s_blocks_per_group
Base1 ==
    [s_inodes_count |-> 8, s_blocks_count |-> 7, s_first_data_block |-> 1,
     s_log_frag_size |-> 0, s_log_block_size |-> 0,
     s_frags_per_group |-> 4, s_blocks_per_group |-> 4,
     s_inodes_per_group |-> 4, s_r_blocks_count |-> 0,
     s_state |-> {}, s_mnt_count |-> 0, s_max_mnt_count |-> 1,
     s_lastcheck |-> 0, s_checkinterval |-> 0]

\* 2k blocks, first data block 0, two full groups [0,4) and [4,8)
Base2 ==
    [Base1 EXCEPT !.s_blocks_count = 8, !.s_first_data_block = 0,
                  !.s_log_frag_size = 1, !.s_log_block_size = 1]

ScalarFields ==
    {"s_inodes_count", "s_blocks_count", "s_first_data_block",
     "s_log_frag_size", "s_log_block_size", "s_frags_per_group",
     "s_blocks_per_group", "s_inodes_per_group", "s_r_blocks_count"}

\* the values a damaged scalar field may hold
ScalarChoices(base, f) ==
    CASE f = "s_inodes_count"     -> {0}
      [] f = "s_blocks_count"     -> {0}
      [] f = "s_first_data_block" -> {0, 1, base.s_blocks_count + 1}
      [] f = "s_log_frag_size"    -> {0, 1, 3}
      [] f = "s_log_block_size"   -> {0, 1, 3}
      [] f = "s_frags_per_group"  -> {0, 8, 8 * EXT2_BLOCK_SIZE(base) + 1}
      [] f = "s_blocks_per_group" -> {0, 8, 8 * EXT2_BLOCK_SIZE(base) + 1}
      [] f = "s_inodes_per_group" -> {0}
      [] f = "s_r_blocks_count"   -> {base.s_blocks_count,
                                      base.s_blocks_count + 1}

\* superblocks that differ from base in at most MaxBad scalar fields
ScalarVariants(base) ==
    UNION { { [f \in DOMAIN base |-> IF f \in D THEN v[f] ELSE base[f]] :
                v \in { w \in [D -> UNION {ScalarChoices(base, g) : g \in D}] :
                          \A g \in D : w[g] \in ScalarChoices(base, g) } } :
            D \in { E \in SUBSET ScalarFields : Cardinality(E) <= MaxBad } }

\* the number of groups the library derives from the geometry (0 for a
\* geometry it cannot divide)
GroupCount(s) ==
    IF s.s_blocks_per_group = 0 \/ s.s_blocks_count <= s.s_first_data_block
      THEN 0
      ELSE (s.s_blocks_count - s.s_first_data_block
              + s.s_blocks_per_group - 1) \div s.s_blocks_per_group

\* first block of group g (g counted from 1) and the block after its last
GroupFirst(s, g) == s.s_first_data_block + (g - 1) * s.s_blocks_per_group
GroupLast(s, g) ==
    IF g = GroupCount(s) THEN s.s_blocks_count
                         ELSE GroupFirst(s, g) + s.s_blocks_per_group

\* descriptors with every pointer at the first block of its group
CleanGroupDesc(s) ==
    [g \in 1 .. GroupCount(s) |->
        [bg_block_bitmap |-> GroupFirst(s, g),
         bg_inode_bitmap |-> GroupFirst(s, g),
         bg_inode_table  |-> GroupFirst(s, g)]]

\* the values a damaged pointer of group g may hold: 0 and the blocks at
\* and next to both ends of the group
PtrChoices(s, g) ==
    {0, GroupFirst(s, g), GroupFirst(s, g) + 1,
     GroupLast(s, g) - 1, GroupLast(s, g)}
    \cup (IF GroupFirst(s, g) > 0 THEN {GroupFirst(s, g) - 1} ELSE {})

PtrSlots(s) == (1 .. GroupCount(s)) \X {Kinds[1], Kinds[2], Kinds[3]}

\* descriptor tables that differ from the clean one in at most MaxBad
\* pointers
GroupDescVariants(s) ==
    UNION { { [g \in 1 .. GroupCount(s) |->
                 [k \in {Kinds[1], Kinds[2], Kinds[3]} |->
                    IF <<g, k>> \in D THEN v[<<g, k>>]
                                      ELSE CleanGroupDesc(s)[g][k]]] :
                v \in { w \in [D -> 0 .. s.s_blocks_count] :
                          \A d \in D : w[d] \in PtrChoices(s, d[1]) } } :
            D \in { E \in SUBSET PtrSlots(s) : Cardinality(E) <= MaxBad } }

Image(s, gd) ==
    [super |-> s, group_desc |-> gd, inode_blocks_per_group |-> 2]

\* images for the runs about check_super_block
ValidateImages ==
    { Image(s, CleanGroupDesc(s)) :
        s \in ScalarVariants(Base1) \cup ScalarVariants(Base2) }
    \cup { Image(Base1, gd) : gd \in GroupDescVariants(Base1) }

\* images for the runs about check_if_skip
SkipImages ==
    { Image([Base1 EXCEPT !.s_state = st, !.s_mnt_count = m,
                          !.s_max_mnt_count = mx, !.s_lastcheck = lc,
                          !.s_checkinterval = ci], CleanGroupDesc(Base1)) :
        st \in SUBSET {EXT2_VALID_FS, EXT2_ERROR_FS},
        m \in 0 .. MaxMnt, mx \in (-1) .. MaxMnt,
        lc \in {0, 1}, ci \in 0 .. MaxTime }

\* images for the runs about main as a whole
MainImages ==
    { Image([Base1 EXCEPT !.s_state = st], gd) :
        st \in {{}, {EXT2_VALID_FS}},
        gd \in {CleanGroupDesc(Base1),
                [CleanGroupDesc(Base1) EXCEPT ![2].bg_block_bitmap = 0,
                                              ![2].bg_inode_table = 6]} }

\* option lists of at most n letters
RECURSIVE ArgLists(_, _)
ArgLists(letters, n) ==
    IF n = 0 THEN {<<>>}
    ELSE LET shorter == ArgLists(letters, n - 1)
         IN  shorter \cup { Append(a, c) : a \in shorter, c \in letters }

(***************************************************************************)
(* State.                                                                  *)
(***************************************************************************)
VARIABLES
    pc,            \* the place main has reached
    term,          \* how the process ended ("" while it runs)
    status,        \* the exit status of the process (-1 while it runs)
    argv,          \* the option letters of the command line
    tty,           \* isatty(0) && isatty(1)
    mount,         \* how the device is mounted
    dev_size,      \* physical size of the device, in blocks
    preen, nflag, yflag, force, cflag, bad_blocks_file, superblock, rwflag,
    disk,          \* the image on the device
    fs,            \* the handle ext2fs_open returned (the in-memory copy)
    fs_open,       \* the handle is open
    invalid_inode_bitmap, invalid_block_bitmap, invalid_inode_table,
    arrays_live,   \* the three arrays are allocated and not yet freed
    invalid_bitmaps,
    restart_e2fsck,
    hint_issued,   \* the static of relocate_hint
    i, k,          \* check_super_block: group index, field index (0..2)
    first_block, last_block,
    size_retval,   \* retval of ext2fs_get_device_size (-1: not called yet)
    exit_value,    \* main's exit_value
    now,           \* the last value time() returned
    restarts,      \* the number of times main took "goto restart"
    out            \* what the process printed and which externals it called

options == <<preen, nflag, yflag, force, cflag, bad_blocks_file, superblock,
             rwflag>>
environment == <<argv, tty, mount, dev_size>>
arrays == <<invalid_inode_bitmap, invalid_block_bitmap, invalid_inode_table,
            arrays_live>>
locals == <<i, k, first_block, last_block, size_retval>>
vars == <<pc, term, status, environment, options, disk, fs, fs_open, arrays,
          invalid_bitmaps, restart_e2fsck, hint_issued, locals, exit_value,
          now, restarts, out>>

MountStates == {"unmounted", "mounted", "root_rw", "root_ro"}
Times == 0 .. (MaxTime + 1)

\* a handle as ext2fs_open builds it from the image
OpenHandle(d, rw, dirty) ==
    [super |-> d.super, group_desc |-> d.group_desc,
     group_desc_count |-> Len(d.group_desc),
     inode_blocks_per_group |-> d.inode_blocks_per_group,
     changed |-> FALSE, dirty |-> dirty, valid |-> FALSE, rw |-> rw]

\* allocate_memory: a zeroed array of n ints
allocate_memory(n) == [g \in 1 .. n |-> 0]

\* ext2fs_close: buffered mutations reach the device when the handle is dirty
Flush(h, d) ==
    IF h.dirty /\ h.rw
      THEN [d EXCEPT !.super = h.super, !.group_desc = h.group_desc]
      ELSE d

InitWith(images, arglists, ttys, mounts, missing, clocks) ==
    /\ pc = "PRS" /\ term = "" /\ status = -1
    /\ argv \in arglists
    /\ tty \in ttys
    /\ mount \in mounts
    /\ disk \in images
    /\ dev_size \in { disk.super.s_blocks_count - m : m \in missing }
    /\ dev_size >= 0
    /\ preen = 0 /\ nflag = 0 /\ yflag = 0 /\ force = 0 /\ cflag = 0
    /\ bad_blocks_file = 0 /\ superblock = 0 /\ rwflag = 1
    /\ fs = OpenHandle(Image(Base1, <<>>), FALSE, FALSE)
    /\ fs_open = FALSE
    /\ invalid_inode_bitmap = <<>> /\ invalid_block_bitmap = <<>>
    /\ invalid_inode_table = <<>> /\ arrays_live = FALSE
    /\ invalid_bitmaps = 0 /\ restart_e2fsck = 0 /\ hint_issued = 0
    /\ i = 0 /\ k = 0 /\ first_block = 0 /\ last_block = 0
    /\ size_retval = -1
    /\ exit_value = FSCK_OK /\ now \in clocks /\ restarts = 0 /\ out = <<>>

\* runs of main over every option list
Init ==
    InitWith(MainImages, ArgLists({"p", "n", "y", "f", "b", "?"}, MaxArgs),
             BOOLEAN, MountStates, {0}, {0})

\* runs over damaged superblocks and group descriptors, one per mode; the
\* validator reads no clock, so these runs start at the last clock value
InitValidate ==
    InitWith(ValidateImages, {<<>>, <<"p">>, <<"n">>, <<"y">>},
             {TRUE}, {"unmounted"}, {0, 1}, {MaxTime + 1})

\* runs over the fields check_if_skip reads
InitSkip ==
    InitWith(SkipImages,
             {<<"n">>, <<"n", "f">>, <<"n", "c">>, <<"n", "l">>, <<"y">>},
             {TRUE}, {"unmounted"}, {0}, {0})

(***************************************************************************)
(* External functions of e2fsck (util.c), at their interface.              *)
(***************************************************************************)
\* ask(string, def): -n answers no, -y answers yes, preen takes the
\* default, otherwise the operator answers
ask(def, answer) ==
    IF nflag # 0 THEN FALSE
    ELSE IF yflag # 0 THEN TRUE
    ELSE IF preen # 0 THEN def
    ELSE answer

\* preenhalt(fs): prints a banner in preen mode
preenhalt(o) == IF preen # 0 THEN Append(o, "preenhalt") ELSE o

\* exit(code), reached as how
Exit(how, code) ==
    /\ pc' = "done"
    /\ term' = how
    /\ status' = code

\* fatal_error(msg): the process ends with FSCK_ERROR
fatal_error == Exit("fatal", FSCK_ERROR)

\* the increment applied to the array of every field
CountInvalid_everyArray(a, kind, which, g) == [a EXCEPT ![g] = a[g] + 1]

\* e2fsck.c:342, 356, 372: the array of the field found out of range
\* (which) gets the count of group g raised; the other two stay
CountInvalid(a, kind, which, g) ==
    IF kind = which THEN [a EXCEPT ![g] = a[g] + 1] ELSE a

\* the message of the first test used for all three
DeclinedMsg_copied(kind) == "fatal: Block bitmap not in group"

\* the message handed to fatal_error when the relocation is declined
\* (e2fsck.c:339, 353, 369)
DeclinedMsg(kind) ==
    CASE kind = "bg_block_bitmap" -> "fatal: Block bitmap not in group"
      [] kind = "bg_inode_bitmap" -> "fatal: Inode bitmap not in group"
      [] kind = "bg_inode_table"  -> "fatal: Inode table not in group"

\* relocate_hint that prints on every call
relocate_hint_always(issued, o) == Append(o, "hint")

\* relocate_hint (e2fsck.c:227-242): what is printed, given the static
relocate_hint(issued, o) == IF issued # 0 THEN o ELSE Append(o, "hint")

(***************************************************************************)
(* The steps of main.                                                      *)
(***************************************************************************)
\* PRS (e2fsck.c:418-549), called at e2fsck.c:567
PRS ==
    /\ pc = "PRS"
    /\ LET o == ParseOpts(InitialOpts, argv)
       IN  /\ preen' = o.preen /\ nflag' = o.nflag /\ yflag' = o.yflag
           /\ force' = o.force /\ cflag' = o.cflag
           /\ bad_blocks_file' = o.bad_blocks_file
           /\ superblock' = o.superblock
           /\ IF o.usage
                THEN /\ Exit("usage", FSCK_USAGE)
                     /\ rwflag' = rwflag
                ELSE /\ rwflag' = RwFlag(o)
                     /\ pc' = "check_mount"
                     /\ UNCHANGED <<term, status>>
    /\ UNCHANGED <<environment, disk, fs, fs_open, arrays, invalid_bitmaps,
                   restart_e2fsck, hint_issued, locals, exit_value, now,
                   restarts, out>>

\* check_mount (e2fsck.c:152-196), called at e2fsck.c:577
check_mount ==
    /\ pc = "check_mount"
    /\ \E failed \in BOOLEAN, answer \in BOOLEAN :
         LET cont == IF tty THEN answer ELSE FALSE
         IN  IF failed \/ mount = "unmounted" \/ mount = "root_ro"
                \/ rwflag = 0 \/ cont
               THEN pc' = "tty_check" /\ UNCHANGED <<term, status>>
               ELSE Exit("mount_abort", FSCK_OK)
    /\ UNCHANGED <<environment, options, disk, fs, fs_open, arrays,
                   invalid_bitmaps, restart_e2fsck, hint_issued, locals,
                   exit_value, now, restarts, out>>

\* e2fsck.c:579-582
tty_check ==
    /\ pc = "tty_check"
    /\ IF preen = 0 /\ nflag = 0 /\ yflag = 0 /\ ~tty
         THEN Exit("die", FSCK_ERROR)
         ELSE pc' = "open" /\ UNCHANGED <<term, status>>
    /\ UNCHANGED <<environment, options, disk, fs, fs_open, arrays,
                   invalid_bitmaps, restart_e2fsck, hint_issued, locals,
                   exit_value, now, restarts, out>>

\* e2fsck.c:583-657: from the label restart to the allocation of the arrays
open ==
    /\ pc = "open"
    /\ \E opened \in BOOLEAN :
         IF ~opened
           THEN /\ fatal_error
                /\ out' = Append(out, "fatal: while trying to open")
                /\ UNCHANGED <<fs, fs_open, arrays>>
           ELSE /\ fs' = OpenHandle(disk, rwflag # 0,
                                    superblock # 0 /\ rwflag # 0)
                /\ fs_open' = TRUE
                /\ invalid_inode_bitmap' =
                      allocate_memory(Len(disk.group_desc))
                /\ invalid_block_bitmap' =
                      allocate_memory(Len(disk.group_desc))
                /\ invalid_inode_table' =
                      allocate_memory(Len(disk.group_desc))
                /\ arrays_live' = TRUE
                /\ out' = Append(out, "open")
                /\ pc' = "check_super_block"
                /\ UNCHANGED <<term, status>>
    /\ UNCHANGED <<environment, options, disk, invalid_bitmaps,
                   restart_e2fsck, hint_issued, locals, exit_value, now,
                   restarts>>

\* the group loop left before its first iteration
EnterGroup_noLoop(g, first, last) ==
    /\ i' = g /\ k' = 0
    /\ first_block' = first
    /\ last_block' = last
    /\ pc' = "check_if_skip"

\* the group loop moves to group g (e2fsck.c:328-330), or ends (e2fsck.c:378)
EnterGroup(g, first, last) ==
    /\ i' = g /\ k' = 0
    /\ first_block' = first
    /\ last_block' = LastBlockOf(g, fs.group_desc_count, last, fs.super)
    /\ pc' = IF g < fs.group_desc_count THEN "group_desc" ELSE "check_if_skip"

\* a size test that never finds the device too small
DeviceTooSmall_never(should_be, s) == FALSE

\* e2fsck.c:284: the device holds fewer blocks than the superblock claims
DeviceTooSmall(should_be, s) == should_be < s.s_blocks_count

\* check_super_block up to the group loop (e2fsck.c:245-326)
check_super_block ==
    /\ pc = "check_super_block"
    /\ \E failed \in BOOLEAN, answer \in BOOLEAN :
         LET s == fs.super
             short == DeviceTooSmall(dev_size, s)
             asked == Append(preenhalt(Append(out, "device is smaller")),
                             "ask Abort")
             out1 == IF short THEN asked ELSE out
         IN  IF SuperValueCorrupt(s) # ""
               THEN /\ fatal_error
                    /\ out' = Append(out, "fatal: Corruption found in superblock")
                    /\ UNCHANGED <<locals>>
             ELSE IF failed
               THEN /\ fatal_error
                    /\ out' = Append(out, "fatal: ext2fs_get_device_size")
                    /\ size_retval' = 1
                    /\ UNCHANGED <<i, k, first_block, last_block>>
             ELSE IF short /\ ask(TRUE, answer)
               THEN /\ fatal_error
                    /\ out' = Append(asked, "fatal: aborted")
                    /\ size_retval' = 0
                    /\ UNCHANGED <<i, k, first_block, last_block>>
             ELSE IF DerivedCorrupt(s) # ""
               THEN /\ fatal_error
                    /\ out' = Append(out1, "fatal: " \o DerivedCorrupt(s))
                    /\ size_retval' = 0
                    /\ UNCHANGED <<i, k, first_block, last_block>>
             ELSE /\ EnterGroup(0, s.s_first_data_block,
                                s.s_first_data_block + s.s_blocks_per_group)
                  /\ out' = out1
                  /\ size_retval' = 0
                  /\ UNCHANGED <<term, status>>
    /\ UNCHANGED <<environment, options, disk, fs, fs_open, arrays,
                   invalid_bitmaps, restart_e2fsck, hint_issued, exit_value,
                   now, restarts>>

\* one of the three tests of the loop body of check_super_block
\* (e2fsck.c:331-344, 345-358, 359-374), and after the third the step to
\* the next group (e2fsck.c:375-376)
group_desc ==
    /\ pc = "group_desc"
    /\ \E answer \in BOOLEAN :
         LET kind == Kinds[k + 1]
             ptr == fs.group_desc[i + 1][kind]
             bad == NotInGroup(kind, ptr, first_block, last_block,
                               fs.inode_blocks_per_group)
             asked == Append(preenhalt(Append(relocate_hint(hint_issued, out),
                                              NotInGroupMsg(kind))),
                             "ask Relocate")
             bump(a, which) == CountInvalid(a, kind, which, i + 1)
         IN  IF bad /\ ~ask(TRUE, answer)
               THEN /\ fatal_error
                    /\ out' = Append(asked, DeclinedMsg(kind))
                    /\ hint_issued' = 1
                    /\ UNCHANGED <<fs, invalid_inode_bitmap,
                                   invalid_block_bitmap, invalid_inode_table,
                                   invalid_bitmaps, i, k, first_block,
                                   last_block>>
               ELSE /\ IF bad
                         THEN /\ fs' = [fs EXCEPT !.group_desc[i + 1][kind] = 0]
                              /\ invalid_block_bitmap' =
                                    bump(invalid_block_bitmap, Kinds[1])
                              /\ invalid_inode_bitmap' =
                                    bump(invalid_inode_bitmap, Kinds[2])
                              /\ invalid_inode_table' =
                                    bump(invalid_inode_table, Kinds[3])
                              /\ invalid_bitmaps' = invalid_bitmaps + 1
                              /\ out' = asked
                              /\ hint_issued' = 1
                         ELSE UNCHANGED <<fs, invalid_inode_bitmap,
                                          invalid_block_bitmap,
                                          invalid_inode_table,
                                          invalid_bitmaps, out, hint_issued>>
                    /\ IF k < 2
                         THEN /\ k' = k + 1
                              /\ UNCHANGED <<pc, i, first_block, last_block>>
                         ELSE EnterGroup(i + 1,
                                 first_block + fs.super.s_blocks_per_group,
                                 last_block + fs.super.s_blocks_per_group)
                    /\ UNCHANGED <<term, status>>
    /\ UNCHANGED <<environment, options, disk, fs_open, arrays_live,
                   restart_e2fsck, size_retval, exit_value, now, restarts>>

\* check_if_skip (e2fsck.c:386-414), called at e2fsck.c:659
check_if_skip ==
    /\ pc = "check_if_skip"
    /\ \E t \in Times :
         LET reason == SkipReason(fs.super, t)
         IN  /\ t >= now
             /\ now' = t
             /\ IF force # 0 \/ bad_blocks_file # 0 \/ cflag # 0
                  THEN /\ pc' = "mark_valid"
                       /\ UNCHANGED <<term, status, out>>
                ELSE IF reason # ""
                  THEN /\ pc' = "mark_valid"
                       /\ out' = Append(out, reason)
                       /\ UNCHANGED <<term, status>>
                ELSE IF EXT2_VALID_FS \in fs.super.s_state
                  THEN /\ Exit("skip", FSCK_OK)
                       /\ out' = Append(out, "clean")
                ELSE /\ pc' = "mark_valid"
                     /\ UNCHANGED <<term, status, out>>
    /\ UNCHANGED <<environment, options, disk, fs, fs_open, arrays,
                   invalid_bitmaps, restart_e2fsck, hint_issued, locals,
                   exit_value, restarts>>

\* e2fsck.c:660-668: the bad-blocks pass when asked for, then
\* ext2fs_mark_valid
mark_valid ==
    /\ pc = "mark_valid"
    /\ out' = IF bad_blocks_file # 0 THEN Append(out, "read_bad_blocks_file")
              ELSE IF cflag # 0 THEN Append(out, "test_disk")
              ELSE out
    /\ fs' = [fs EXCEPT !.valid = TRUE]
    /\ pc' = "pass1"
    /\ UNCHANGED <<term, status, environment, options, disk, fs_open, arrays,
                   invalid_bitmaps, restart_e2fsck, hint_issued, locals,
                   exit_value, now, restarts>>

\* what a pass may do to the handle: repair something (which marks the
\* handle changed and dirty, on a writable handle only) and leave
\* something unrepaired (which clears the valid flag)
PassEffect(h, repaired, unrepaired) ==
    [h EXCEPT !.changed = h.changed \/ (repaired /\ h.rw),
              !.dirty = h.dirty \/ (repaired /\ h.rw),
              !.valid = h.valid /\ ~unrepaired]

\* pass1(fs), e2fsck.c:670; it may set restart_e2fsck
pass1 ==
    /\ pc = "pass1"
    /\ \E repaired \in BOOLEAN, unrepaired \in BOOLEAN, again \in BOOLEAN :
         /\ fs' = PassEffect(fs, repaired, unrepaired)
         /\ restart_e2fsck' = IF again /\ restarts < MaxRestarts
                                THEN restart_e2fsck + 1 ELSE restart_e2fsck
    /\ out' = Append(out, "pass1")
    /\ pc' = "after_pass1"
    /\ UNCHANGED <<term, status, environment, options, disk, fs_open, arrays,
                   invalid_bitmaps, hint_issued, locals, exit_value, now,
                   restarts>>

\* a restart that jumps back to check_super_block on the handle and the
\* arrays of the iteration that ends
after_pass1_reuse ==
    /\ pc = "after_pass1"
    /\ IF restart_e2fsck # 0
         THEN /\ out' = Append(out, "Restarting")
              /\ restart_e2fsck' = 0
              /\ restarts' = restarts + 1
              /\ pc' = "check_super_block"
              /\ UNCHANGED <<arrays>>
         ELSE /\ pc' = "pass2"
              /\ invalid_inode_bitmap' = <<>>
              /\ invalid_block_bitmap' = <<>>
              /\ invalid_inode_table' = <<>>
              /\ arrays_live' = FALSE
              /\ UNCHANGED <<out, restart_e2fsck, restarts>>
    /\ UNCHANGED <<term, status, environment, options, disk, fs, fs_open,
                   invalid_bitmaps, hint_issued, locals, exit_value, now>>

\* a main with a loop guard: a restart request ends the run
after_pass1_guarded ==
    /\ pc = "after_pass1"
    /\ invalid_inode_bitmap' = <<>>
    /\ invalid_block_bitmap' = <<>>
    /\ invalid_inode_table' = <<>>
    /\ arrays_live' = FALSE
    /\ IF restart_e2fsck # 0
         THEN /\ fatal_error
              /\ out' = Append(out, "fatal: too many restarts")
         ELSE /\ pc' = "pass2"
              /\ UNCHANGED <<term, status, out>>
    /\ UNCHANGED <<environment, options, disk, fs, fs_open, invalid_bitmaps,
                   restart_e2fsck, restarts, hint_issued, locals, exit_value,
                   now>>

\* e2fsck.c:671-679: the arrays are freed; on restart_e2fsck the handle is
\* closed and main jumps to restart
after_pass1 ==
    /\ pc = "after_pass1"
    /\ invalid_inode_bitmap' = <<>>
    /\ invalid_block_bitmap' = <<>>
    /\ invalid_inode_table' = <<>>
    /\ arrays_live' = FALSE
    /\ IF restart_e2fsck # 0
         THEN /\ disk' = Flush(fs, disk)
              /\ fs_open' = FALSE
              /\ out' = Append(Append(out, "close"), "Restarting")
              /\ restart_e2fsck' = 0
              /\ restarts' = restarts + 1
              /\ pc' = "open"
         ELSE /\ pc' = "pass2"
              /\ UNCHANGED <<disk, fs_open, out, restart_e2fsck, restarts>>
    /\ UNCHANGED <<term, status, environment, options, fs, invalid_bitmaps,
                   hint_issued, locals, exit_value, now>>

\* passes 2 to 5 (e2fsck.c:680-683)
LaterPass(this, next) ==
    /\ pc = this
    /\ \E repaired \in BOOLEAN, unrepaired \in BOOLEAN :
         fs' = PassEffect(fs, repaired, unrepaired)
    /\ out' = Append(out, this)
    /\ pc' = next
    /\ UNCHANGED <<term, status, environment, options, disk, fs_open, arrays,
                   invalid_bitmaps, restart_e2fsck, hint_issued, locals,
                   exit_value, now, restarts>>

pass2 == LaterPass("pass2", "pass3")
\* pass 3 followed by the finalization
pass3_thenFinalize == LaterPass("pass3", "finalize")

pass3 == LaterPass("pass3", "pass4")
pass4 == LaterPass("pass4", "pass5")
pass5 == LaterPass("pass5", "finalize")

\* a write-back that leaves s_state as it was read
WriteBack_keepState(h, t) ==
    [h EXCEPT !.super.s_mnt_count = 0,
              !.super.s_lastcheck = t,
              !.dirty = TRUE]

\* e2fsck.c:700-708: the superblock fields main writes before closing
WriteBack(h, t) ==
    [h EXCEPT !.super.s_state = IF h.valid THEN {EXT2_VALID_FS}
                                ELSE h.super.s_state \ {EXT2_VALID_FS},
              !.super.s_mnt_count = 0,
              !.super.s_lastcheck = t,
              !.dirty = TRUE]

\* e2fsck.c:688-718: exit classification, write-back, close, return
finalize ==
    /\ pc = "finalize"
    /\ \E t \in Times :
         LET h == IF rwflag # 0 THEN WriteBack(fs, t) ELSE fs
         IN  /\ t >= now
             /\ now' = t
             /\ fs' = h
             /\ disk' = Flush(h, disk)
    /\ exit_value' = ExitValue(fs.changed, fs.valid)
    /\ fs_open' = FALSE
    /\ out' = Append(IF rwflag # 0 THEN Append(out, "write-back") ELSE out,
                     "close")
    /\ Exit("final", ExitValue(fs.changed, fs.valid))
    /\ UNCHANGED <<environment, options, arrays, invalid_bitmaps,
                   restart_e2fsck, hint_issued, locals, restarts>>

Next ==
    \/ PRS
    \/ check_mount
    \/ tty_check
    \/ open
    \/ check_super_block
    \/ group_desc
    \/ check_if_skip
    \/ mark_valid
    \/ pass1
    \/ after_pass1
    \/ pass2
    \/ pass3
    \/ pass4
    \/ pass5
    \/ finalize

Spec == Init /\ [][Next]_vars
SpecValidate == InitValidate /\ [][Next]_vars
SpecSkip == InitSkip /\ [][Next]_vars

\* runs of main, one per mode, in which every step that can be taken is
\* taken: main is sequential and each call it makes returns or ends the
\* process
InitRestart ==
    InitWith(MainImages, {<<>>, <<"p">>, <<"n">>, <<"y">>, <<"y", "f">>},
             {TRUE}, {"unmounted"}, {0}, {0})
SpecRestart == InitRestart /\ [][Next]_vars /\ WF_vars(Next)

(***************************************************************************)
(* Properties.                                                             *)
(***************************************************************************)
\* the run reached the end of main (finalization after pass 5)
Finalized == pc = "done" /\ term = "final"

\* C1: at finalization the exit code is decided by the changed and valid
\* flags of the handle alone: unchanged and valid gives 0; changed and
\* valid on a volume that is not the read-write root gives 1; not valid
\* gives 4 whatever the changed flag is.
C1_ExitCodeMatrix ==
    Finalized =>
       /\ status = exit_value
       /\ (~fs.changed /\ fs.valid) => status = 0
       /\ (fs.changed /\ fs.valid /\ mount # "root_rw") => status = 1
       /\ ~fs.valid => status = 4

\* a finalization where both classifications apply and 4 wins
C1_Witness == Finalized /\ fs.changed /\ ~fs.valid /\ status = 4

\* C2: a run that finalizes changed and valid on the root volume mounted
\* read-write exits with code 2 ("reboot required").
C2_RebootOnRwRoot ==
    (Finalized /\ fs.changed /\ fs.valid /\ mount = "root_rw") => status = 2

(***************************************************************************)
(* The invariants of the data model, as the description states them.       *)
(***************************************************************************)
\* the scalar invariants of the superblock
SuperblockInvariants(s) ==
    /\ s.s_inodes_count >= 1
    /\ s.s_blocks_count >= 1
    /\ s.s_first_data_block <= s.s_blocks_count
    /\ s.s_log_frag_size \in 0 .. 2
    /\ s.s_log_block_size \in s.s_log_frag_size .. 2
    /\ s.s_blocks_per_group \in 1 .. 8 * EXT2_BLOCK_SIZE(s)
    /\ s.s_frags_per_group \in 1 .. 8 * EXT2_BLOCK_SIZE(s)
    /\ s.s_r_blocks_count <= s.s_blocks_count
    /\ s.s_log_block_size = s.s_log_frag_size
    /\ s.s_blocks_per_group =
          s.s_frags_per_group \div (s.s_log_block_size - s.s_log_frag_size + 1)
    /\ s.s_first_data_block = (IF s.s_log_block_size = 0 THEN 1 ELSE 0)

\* the block range [first, last) of group g (counted from 1) of n groups
RangeFirst(s, g) == s.s_first_data_block + (g - 1) * s.s_blocks_per_group
RangeLast(s, g, n) ==
    IF g = n THEN s.s_blocks_count ELSE RangeFirst(s, g) + s.s_blocks_per_group

\* pointer kind of group g lies in the range of its group (the inode table
\* with its whole extent)
PointerInRange(s, gd, ibpg, g, kind) ==
    LET p == gd[g][kind]
    IN  /\ RangeFirst(s, g) <= p
        /\ IF kind = "bg_inode_table"
             THEN p + ibpg <= RangeLast(s, g, Len(gd))
             ELSE p < RangeLast(s, g, Len(gd))

KindSet == {Kinds[1], Kinds[2], Kinds[3]}

GroupDescInvariants(d) ==
    \A g \in 1 .. Len(d.group_desc), kind \in KindSet :
       PointerInRange(d.super, d.group_desc, d.inode_blocks_per_group, g, kind)

\* the counter array of a pointer kind
CounterOf(kind, bb, ib, it) ==
    CASE kind = "bg_block_bitmap" -> bb
      [] kind = "bg_inode_bitmap" -> ib
      [] kind = "bg_inode_table"  -> it

Printed(msg) == \E j \in 1 .. Len(out) : out[j] = msg

InValidate == pc \in {"check_super_block", "group_desc"}

\* a step that changes nothing validate could change, and does not end
\* the run
NoMutationStep ==
    /\ term' = ""
    /\ fs' = fs /\ disk' = disk
    /\ invalid_block_bitmap' = invalid_block_bitmap
    /\ invalid_inode_bitmap' = invalid_inode_bitmap
    /\ invalid_inode_table' = invalid_inode_table
    /\ invalid_bitmaps' = invalid_bitmaps

\* C3 as stated: on a filesystem whose superblock and group descriptors
\* satisfy every invariant of the data model, no step of validate ends
\* the run or changes a descriptor, a counter or the superblock.
C3_ValidFsUntouched_AsStated ==
    [][ (InValidate /\ SuperblockInvariants(disk.super)
           /\ GroupDescInvariants(disk))
        => NoMutationStep ]_vars

\* C3 amended: the same, for filesystems that also have at least one inode
\* per group and sit on a device whose size can be read and is not smaller
\* than s_blocks_count.
C3_ValidFsUntouched ==
    [][ (InValidate /\ SuperblockInvariants(disk.super)
           /\ GroupDescInvariants(disk)
           /\ disk.super.s_inodes_per_group >= 1
           /\ size_retval' = 0
           /\ dev_size >= disk.super.s_blocks_count)
        => NoMutationStep ]_vars

\* validate returned on a sound filesystem with nothing counted or changed
C3_Witness ==
    /\ pc = "check_if_skip"
    /\ SuperblockInvariants(disk.super) /\ GroupDescInvariants(disk)
    /\ fs.group_desc = disk.group_desc /\ fs.super = disk.super
    /\ invalid_bitmaps = 0
    /\ fs.group_desc_count = 2

\* C4: a superblock that breaks a scalar invariant never gets past the
\* scalar checks: the run ends fatally there, the group loop is not
\* entered, no relocation is offered, no pointer zeroed, no counter raised.
C4_ScalarCorruptionIsFatal ==
    ~SuperblockInvariants(disk.super) =>
       /\ pc \in {"PRS", "check_mount", "tty_check", "open",
                  "check_super_block", "done"}
       /\ pc = "done" => (term = "fatal" /\ status = FSCK_ERROR)
       /\ ~Printed("ask Relocate")
       /\ invalid_bitmaps = 0
       /\ fs_open =>
            /\ fs.group_desc = disk.group_desc
            /\ \A g \in 1 .. fs.group_desc_count :
                  /\ invalid_block_bitmap[g] = 0
                  /\ invalid_inode_bitmap[g] = 0
                  /\ invalid_inode_table[g] = 0

\* a fatal end caused by a derived-value mismatch alone (the nine range
\* checks and the device-size check passed)
C4_Witness ==
    /\ pc = "done" /\ term = "fatal" /\ fs_open
    /\ ~SuperblockInvariants(disk.super)
    /\ SuperValueCorrupt(disk.super) = ""
    /\ size_retval = 0 /\ dev_size >= disk.super.s_blocks_count

\* C5: while the arrays of an iteration exist, a pointer that lies in the
\* range of its group (the final group ending at s_blocks_count) has a
\* zero counter and its stored value.
C5_InRangeUntouched ==
    (fs_open /\ arrays_live) =>
       \A g \in 1 .. Len(disk.group_desc), kind \in KindSet :
          PointerInRange(disk.super, disk.group_desc,
                         disk.inode_blocks_per_group, g, kind)
          => /\ CounterOf(kind, invalid_block_bitmap, invalid_inode_bitmap,
                          invalid_inode_table)[g] = 0
             /\ fs.group_desc[g][kind] = disk.group_desc[g][kind]

\* validate is through with a final group narrower than s_blocks_per_group
\* whose block bitmap sits in its last block and whose inode table ends in
\* it, both left alone, while another pointer was relocated
C5_Witness ==
    /\ pc = "check_if_skip"
    /\ Len(disk.group_desc) = 2
    /\ disk.super.s_blocks_count - RangeFirst(disk.super, 2)
          < disk.super.s_blocks_per_group
    /\ disk.group_desc[2].bg_block_bitmap = disk.super.s_blocks_count - 1
    /\ disk.group_desc[2].bg_inode_table + disk.inode_blocks_per_group
          = disk.super.s_blocks_count
    /\ fs.group_desc[2].bg_block_bitmap = disk.group_desc[2].bg_block_bitmap
    /\ fs.group_desc[2].bg_inode_table = disk.group_desc[2].bg_inode_table
    /\ invalid_block_bitmap[2] = 0 /\ invalid_inode_table[2] = 0
    /\ invalid_inode_bitmap[2] = 1

\* the test of the current pointer finds it out of range
CurrentOutOfRange ==
    /\ pc = "group_desc"
    /\ ~PointerInRange(fs.super, fs.group_desc, fs.inode_blocks_per_group,
                       i + 1, Kinds[k + 1])

\* C6: an accepted relocation of an out-of-range pointer zeroes that
\* pointer and raises the counter of that group and pointer kind by one;
\* every other pointer and every other counter keeps its value.
C6_AcceptedRelocation ==
    [][ (CurrentOutOfRange /\ term' = "") =>
          /\ fs'.group_desc[i + 1][Kinds[k + 1]] = 0
          /\ fs'.super = fs.super
          /\ \A g \in 1 .. fs.group_desc_count, kind \in KindSet :
               LET before == CounterOf(kind, invalid_block_bitmap,
                                invalid_inode_bitmap, invalid_inode_table)[g]
                   after == CounterOf(kind, invalid_block_bitmap',
                                invalid_inode_bitmap', invalid_inode_table')[g]
               IN  IF g = i + 1 /\ kind = Kinds[k + 1]
                     THEN after = before + 1
                     ELSE /\ after = before
                          /\ fs'.group_desc[g][kind] = fs.group_desc[g][kind]
      ]_vars

\* the inode table of the final group was relocated and counted once,
\* next to an untouched block bitmap
C6_Witness ==
    /\ fs_open /\ arrays_live /\ Len(disk.group_desc) = 2
    /\ disk.group_desc[2].bg_inode_table # 0
    /\ fs.group_desc[2].bg_inode_table = 0
    /\ invalid_inode_table[2] = 1
    /\ invalid_block_bitmap[2] = 0
    /\ fs.group_desc[2].bg_block_bitmap # 0

\* validate relocated a pointer on the handle that is open
RelocatedOnHandle ==
    /\ fs_open /\ arrays_live
    /\ \E g \in 1 .. fs.group_desc_count :
          \/ invalid_block_bitmap[g] > 0
          \/ invalid_inode_bitmap[g] > 0
          \/ invalid_inode_table[g] > 0

\* C7: once validate has zeroed a group-descriptor pointer, the changed
\* flag of the handle is set.
C7_RelocationRaisesModified == RelocatedOnHandle => fs.changed

\* the name a fatal message gives the field of a pointer kind
FieldName(kind) ==
    CASE kind = "bg_block_bitmap" -> "Block bitmap"
      [] kind = "bg_inode_bitmap" -> "Inode bitmap"
      [] kind = "bg_inode_table"  -> "Inode table"

\* C8: the test of an out-of-range pointer either relocates it or, when
\* the relocation is declined, ends the run with the fatal message naming
\* the field, the pointer, the counters and the image left as they were
\* and the loop not advanced; and nothing runs after the process ended.
C8_DeclinedRelocationIsFatal ==
    [][ /\ pc # "done"
        /\ CurrentOutOfRange =>
             LET kind == Kinds[k + 1]
                 before == CounterOf(kind, invalid_block_bitmap,
                              invalid_inode_bitmap, invalid_inode_table)
                 after == CounterOf(kind, invalid_block_bitmap',
                              invalid_inode_bitmap', invalid_inode_table')
             IN  /\ after[i + 1] = before[i + 1] => term' = "fatal"
                 /\ term' = "fatal" =>
                      /\ pc' = "done" /\ status' = FSCK_ERROR
                      /\ out'[Len(out')] =
                            "fatal: " \o FieldName(kind) \o " not in group"
                      /\ out'[Len(out') - 1] = "ask Relocate"
                      /\ fs' = fs /\ disk' = disk
                      /\ invalid_block_bitmap' = invalid_block_bitmap
                      /\ invalid_inode_bitmap' = invalid_inode_bitmap
                      /\ invalid_inode_table' = invalid_inode_table
                      /\ invalid_bitmaps' = invalid_bitmaps
                      /\ i' = i /\ k' = k
      ]_vars

\* the operator declined to relocate the inode table of the first group
\* after accepting the relocation of its block bitmap
C8_Witness ==
    /\ pc = "done" /\ term = "fatal" /\ status = FSCK_ERROR
    /\ out[Len(out)] = "fatal: Inode table not in group"
    /\ nflag = 0 /\ i = 0
    /\ invalid_block_bitmap[1] = 1
    /\ fs.group_desc[1].bg_inode_table = disk.group_desc[1].bg_inode_table
    /\ fs.group_desc[1].bg_inode_table # 0
    /\ ~Printed("pass1")

NotInGroupMsgs == { NotInGroupMsg(kind) : kind \in KindSet }

\* C9: the relocation hint is printed at most once in a run, restarts
\* included, and before the first message about a pointer out of range.
C9_HintOnce ==
    /\ Cardinality({ j \in 1 .. Len(out) : out[j] = "hint" }) <= 1
    /\ \A j \in 1 .. Len(out) :
          out[j] \in NotInGroupMsgs => \E h \in 1 .. (j - 1) : out[h] = "hint"

\* two groups had out-of-range pointers before a restart and a pointer
\* was found out of range again after it
C9_Witness ==
    /\ hint_issued = 1 /\ restarts >= 1
    /\ invalid_bitmaps >= 3
    /\ pc = "group_desc"
    /\ Len(out) >= 2
    /\ out[Len(out)] = "ask Relocate"
    /\ out[Len(out) - 1] \in NotInGroupMsgs
    /\ Cardinality({ j \in 1 .. Len(out) : out[j] = "hint" }) = 1

\* the skip decision of one step of check_if_skip, for a given reading of
\* "the mount count has reached its maximum"
SkipDecision(reached) ==
    pc = "check_if_skip" =>
      LET s == fs.super
          erroneous == EXT2_ERROR_FS \in s.s_state
          elapsed == s.s_checkinterval # 0
                     /\ now' >= s.s_lastcheck + s.s_checkinterval
          proceeds == pc' = "mark_valid" /\ term' = "" /\ status' = -1
      IN  IF force # 0 \/ bad_blocks_file # 0 \/ cflag # 0
            THEN proceeds /\ out' = out
          ELSE IF erroneous
            THEN proceeds
                 /\ out' = Append(out, "contains a file system with errors")
          ELSE IF reached
            THEN proceeds
                 /\ out' = Append(out, "has reached maximal mount count")
          ELSE IF elapsed
            THEN proceeds
                 /\ out' = Append(out, "has gone too long without being checked")
          ELSE IF EXT2_VALID_FS \in s.s_state
            THEN /\ pc' = "done" /\ term' = "skip" /\ status' = FSCK_OK
                 /\ fs' = fs /\ disk' = disk /\ fs_open'
                 /\ \A j \in 1 .. Len(out') :
                       out'[j] \notin {"pass1", "pass2", "pass3", "pass4",
                                       "pass5", "write-back", "close"}
          ELSE proceeds /\ out' = out

\* C10 as stated: the mount-count condition is "mount count >= max mount
\* count".
C10_SkipDecision_AsStated ==
    [][ SkipDecision(fs.super.s_mnt_count >= fs.super.s_max_mnt_count) ]_vars

\* C10 amended: the mount-count condition compares against the maximum
\* converted to unsigned, so a negative maximum is never reached.
C10_SkipDecision ==
    [][ SkipDecision(fs.super.s_max_mnt_count >= 0
                     /\ fs.super.s_mnt_count >= fs.super.s_max_mnt_count) ]_vars

\* a clean volume with a negative maximum mount count, mounted since, and
\* a check interval that has not elapsed, was skipped
C10_Witness ==
    /\ pc = "done" /\ term = "skip" /\ status = FSCK_OK
    /\ fs.super.s_max_mnt_count < 0 /\ fs.super.s_mnt_count > 0
    /\ fs.super.s_checkinterval # 0
    /\ now < fs.super.s_lastcheck + fs.super.s_checkinterval

\* the run ended in check_if_skip with "clean" and status 0
ShortCircuited == pc = "done" /\ term = "skip"

\* C11 as stated: in a run that short-circuits as clean the validator has
\* not run: the device size was never queried, no relocation was asked for
\* and the descriptors of the handle are those of the image.
C11_SkipBeforeValidate_AsStated ==
    ShortCircuited =>
       /\ size_retval = -1
       /\ ~Printed("ask Relocate")
       /\ fs.group_desc = disk.group_desc

\* C11: the validator runs before the skip check: in a run that
\* short-circuits as clean, validate has completed on the open handle, so
\* the superblock passes every scalar check, the group loop has visited
\* every group, and every pointer of the handle is in the range of its
\* group or was zeroed by an accepted relocation.
C11_ValidateBeforeSkip ==
    ShortCircuited =>
       /\ fs_open /\ size_retval = 0
       /\ SuperblockInvariants(fs.super)
       /\ fs.super.s_inodes_per_group >= 1
       /\ i = fs.group_desc_count
       /\ \A g \in 1 .. fs.group_desc_count, kind \in KindSet :
             \/ PointerInRange(fs.super, fs.group_desc,
                               fs.inode_blocks_per_group, g, kind)
             \/ /\ fs.group_desc[g][kind] = 0
                /\ Printed("ask Relocate")

\* a volume marked valid was reported clean after the relocation of two
\* pointers of its second group was accepted
C11_Witness ==
    /\ ShortCircuited /\ status = FSCK_OK
    /\ Printed("ask Relocate")
    /\ disk.group_desc[2].bg_inode_table = 6
    /\ fs.group_desc[2].bg_inode_table = 0
    /\ fs.group_desc[2].bg_block_bitmap = 0

\* an array of n zero counts
AllZero(a, n) == Len(a) = n /\ \A g \in 1 .. n : a[g] = 0

\* C12: when pass 1 has set restart_e2fsck, main closes the handle, clears
\* the flag and jumps to restart; the open that follows yields a fresh
\* handle on the image as it is on the device and three arrays of zeroes,
\* and leads into check_super_block; every pass 1 after a restart has an
\* open between the restart and itself; and pass 2 is entered only with
\* restart_e2fsck clear.
C12_RestartCorrectness ==
    /\ [][ /\ (pc = "after_pass1" /\ restart_e2fsck # 0) =>
               /\ pc' = "open" /\ ~fs_open'
               /\ restart_e2fsck' = 0
               /\ restarts' = restarts + 1
               /\ out' = out \o <<"close", "Restarting">>
           /\ (pc = "open" /\ pc' # "done") =>
               /\ pc' = "check_super_block" /\ fs_open'
               /\ fs'.super = disk.super
               /\ fs'.group_desc = disk.group_desc
               /\ ~fs'.changed /\ ~fs'.valid
               /\ arrays_live'
               /\ AllZero(invalid_block_bitmap', fs'.group_desc_count)
               /\ AllZero(invalid_inode_bitmap', fs'.group_desc_count)
               /\ AllZero(invalid_inode_table', fs'.group_desc_count)
           /\ (pc # "check_super_block" /\ pc' = "check_super_block") =>
               pc = "open"
           /\ (pc # "pass2" /\ pc' = "pass2") =>
               pc = "after_pass1" /\ restart_e2fsck = 0
       ]_vars
    /\ [](\A r \in 1 .. Len(out), j \in 1 .. Len(out) :
            (r < j /\ out[r] = "Restarting" /\ out[j] = "pass1") =>
               \E m \in (r + 1) .. (j - 1) : out[m] = "open")

\* validate starts on a reopened handle with arrays of zeroes after an
\* iteration in which it had counted a relocation
C12_Witness ==
    /\ pc = "check_super_block" /\ restarts >= 1
    /\ invalid_bitmaps >= 1
    /\ fs_open /\ ~fs.changed
    /\ AllZero(invalid_block_bitmap, fs.group_desc_count)
    /\ AllZero(invalid_inode_table, fs.group_desc_count)
    /\ out[Len(out)] = "open" /\ out[Len(out) - 1] = "Restarting"

\* C13: after a pass 1 that ran on a handle on which validate relocated a
\* pointer, main closes and reopens instead of going on to pass 2.
C13_RelocationForcesRestart ==
    [][ (pc = "after_pass1" /\ RelocatedOnHandle) =>
           (pc' = "open" /\ restarts' = restarts + 1) ]_vars

\* the entries a step added to the log
Logged == SubSeq(out', Len(out) + 1, Len(out'))

\* C14: when check_super_block gets as far as the size of the device and
\* the superblock claims more blocks than the device holds, it reports
\* that and calls ask("Abort") before anything else; in preen mode and
\* under -y the run ends there in fatal_error, and in every mode an abort
\* is the end of the process; the handle, its group descriptors and the
\* relocation counters are as the open left them.
C14_DeviceTooSmallIsFatalVariant ==
    [][ ( /\ pc = "check_super_block"
          /\ dev_size < fs.super.s_blocks_count
          /\ out'[Len(out')] \notin
                {"fatal: Corruption found in superblock",
                 "fatal: ext2fs_get_device_size"} ) =>
           /\ Len(Logged) >= 2
           /\ Logged[1] = "device is smaller"
           /\ \E j \in 2 .. 3 : j <= Len(Logged) /\ Logged[j] = "ask Abort"
           /\ (preen # 0 \/ yflag # 0) =>
                 (term' = "fatal" /\ out'[Len(out')] = "fatal: aborted")
           /\ nflag # 0 => out'[Len(out')] # "fatal: aborted"
           /\ out'[Len(out')] = "fatal: aborted" =>
                 (pc' = "done" /\ term' = "fatal" /\ status' = FSCK_ERROR)
           /\ fs' = fs /\ disk' = disk
           /\ fs.group_desc = disk.group_desc
           /\ invalid_bitmaps' = invalid_bitmaps
           /\ AllZero(invalid_block_bitmap', fs.group_desc_count)
           /\ AllZero(invalid_inode_bitmap', fs.group_desc_count)
           /\ AllZero(invalid_inode_table', fs.group_desc_count)
      ]_vars

\* the operator of an interactive run answered yes to Abort on a device
\* one block short
C14_Witness ==
    /\ pc = "done" /\ term = "fatal"
    /\ out[Len(out)] = "fatal: aborted"
    /\ out[Len(out) - 1] = "ask Abort"
    /\ preen = 0 /\ yflag = 0 /\ nflag = 0
    /\ dev_size < fs.super.s_blocks_count
    /\ fs.group_desc = disk.group_desc

\* C15: once the options are parsed with -n as the mode, the filesystem
\* is opened without write access, the superblock is never marked dirty
\* and finalization writes nothing back.
C15_ReadOnlyNeverWrites ==
    (pc # "PRS" /\ term # "usage" /\ nflag # 0) =>
       /\ rwflag = 0
       /\ fs_open => (~fs.rw /\ ~fs.dirty)
       /\ ~Printed("write-back")

\* the options getopt hands to the switch before usage() ends the run
RECURSIVE ParsedPrefix(_)
ParsedPrefix(args) ==
    IF args = <<>> \/ Head(args) = "?" THEN <<>>
    ELSE <<Head(args)>> \o ParsedPrefix(Tail(args))

\* the last mode option of a list of options ("" when it has none)
RECURSIVE LastMode(_)
LastMode(args) ==
    IF args = <<>> THEN ""
    ELSE IF args[Len(args)] \in {"p", "n", "y"} THEN args[Len(args)]
    ELSE LastMode(SubSeq(args, 1, Len(args) - 1))

\* C16: after PRS at most one of preen, nflag and yflag is set, the one of
\* the last mode option given (none when no mode option was given), and no
\* later step, a restart included, writes any of the three.
C16_OneModeAfterParsing ==
    /\ [](pc # "PRS" =>
            LET last == LastMode(ParsedPrefix(argv))
            IN  /\ preen \in {0, 1} /\ nflag \in {0, 1} /\ yflag \in {0, 1}
                /\ preen + nflag + yflag <= 1
                /\ preen = 1 <=> last = "p"
                /\ nflag = 1 <=> last = "n"
                /\ yflag = 1 <=> last = "y")
    /\ [][ pc # "PRS" =>
             (preen' = preen /\ nflag' = nflag /\ yflag' = yflag) ]_vars

\* -p followed by -n left -n as the mode, still so in the pass 1 that
\* follows a restart
C16_Witness ==
    /\ argv = <<"p", "n">>
    /\ preen = 0 /\ nflag = 1 /\ yflag = 0
    /\ restarts >= 1 /\ pc = "pass1"

\* C17: an interactive run (none of -p, -n, -y) without a terminal goes
\* on to open the filesystem.
C17_NoTerminalProceeds ==
    [][ (pc = "tty_check" /\ preen = 0 /\ nflag = 0 /\ yflag = 0 /\ ~tty) =>
           (pc' = "open" /\ term' = "") ]_vars

PassNames == <<"pass1", "pass2", "pass3", "pass4", "pass5">>

\* C18: passes 2 to 5 each run at most once, each right after the pass
\* before it with no close or open in between; pass 1 runs on an open
\* handle, entered from the step after check_if_skip, which is entered
\* from check_if_skip, which is entered from a group loop that has visited
\* every group; the process returns from main only out of the finalization
\* that follows pass 5; and a run that ended otherwise ran none of passes
\* 2 to 5 and nothing after its end.
C18_PassOrdering ==
    /\ [](/\ \A p \in 2 .. 5 :
              /\ Cardinality({ j \in 1 .. Len(out) :
                                 out[j] = PassNames[p] }) <= 1
              /\ \A j \in 1 .. Len(out) :
                    out[j] = PassNames[p] =>
                       (j > 1 /\ out[j - 1] = PassNames[p - 1])
          /\ \A j \in 1 .. Len(out) :
                out[j] = "pass1" =>
                   \E m \in 1 .. (j - 1) :
                      /\ out[m] = "open"
                      /\ \A c \in (m + 1) .. (j - 1) :
                            out[c] \notin {"close", "open", "pass1"}
          /\ pc \in {"pass1", "after_pass1", "pass2", "pass3", "pass4",
                      "pass5", "finalize"} => fs_open
          /\ (pc = "done" /\ term # "final") =>
                \A p \in 2 .. 5 : ~Printed(PassNames[p])
          /\ Finalized =>
                /\ Printed("pass5")
                /\ out[Len(out)] = "close"
                /\ out[Len(out) - 1] \in {"pass5", "write-back"}
                /\ out[Len(out) - 1] = "write-back" =>
                      out[Len(out) - 2] = "pass5")
    /\ [][ /\ (pc # "pass1" /\ pc' = "pass1") => pc = "mark_valid"
           /\ (pc # "mark_valid" /\ pc' = "mark_valid") =>
                 pc = "check_if_skip"
           /\ (pc # "check_if_skip" /\ pc' = "check_if_skip") =>
                 /\ InValidate /\ fs_open
                 /\ i' = fs.group_desc_count
                 /\ fs'.group_desc_count = fs.group_desc_count
           /\ (pc # "finalize" /\ pc' = "finalize") =>
                 (pc = "pass5" /\ out'[Len(out')] = "pass5")
           /\ term' = "final" => pc = "finalize"
           /\ pc = "done" => out' = out
         ]_vars

\* a run that restarted once went through all five passes and returned
\* from main
C18_Witness ==
    /\ Finalized /\ restarts >= 1
    /\ Cardinality({ j \in 1 .. Len(out) : out[j] = "pass1" }) = 2
    /\ Printed("pass5") /\ Printed("write-back")

\* the ways the process ends other than by returning from main
EarlyEnds == {"fatal", "skip", "die", "usage", "mount_abort"}

Persisted(s) == <<s.s_state, s.s_mnt_count, s.s_lastcheck>>

\* C20: the finalization of a run with write access leaves the valid bit
\* of s_state set exactly when the handle is valid, s_mnt_count at 0 and
\* s_lastcheck at the time read then, marks the superblock dirty and the
\* close puts it on the device; no other step changes these three fields,
\* on the device or on an open handle.
C20_FinalWriteBack ==
    [][ /\ (pc = "finalize" /\ rwflag # 0) =>
              /\ (EXT2_VALID_FS \in fs'.super.s_state) <=> fs.valid
              /\ fs'.super.s_mnt_count = 0
              /\ fs'.super.s_lastcheck = now'
              /\ fs'.dirty
              /\ disk'.super = fs'.super
              /\ term' = "final"
        /\ pc # "finalize" =>
              /\ Persisted(disk'.super) = Persisted(disk.super)
              /\ (fs_open /\ fs_open') =>
                    Persisted(fs'.super) = Persisted(fs.super)
              /\ fs_open' => Persisted(fs'.super) = Persisted(disk'.super)
      ]_vars

\* a run with write access that left something unrepaired returned from
\* main with the valid bit cleared, the mount count reset and the time of
\* the check recorded on the device
C20_Witness ==
    /\ Finalized /\ rwflag # 0 /\ ~fs.valid
    /\ EXT2_VALID_FS \notin disk.super.s_state
    /\ EXT2_ERROR_FS \in disk.super.s_state
    /\ disk.super.s_mnt_count = 0
    /\ disk.super.s_lastcheck = now /\ now > 1
    /\ Printed("write-back")

\* the sum of the counts of an array
RECURSIVE SumOf(_)
SumOf(a) == IF a = <<>> THEN 0 ELSE Head(a) + SumOf(Tail(a))

\* C21: while the three arrays are allocated, invalid_bitmaps is the sum
\* of all their counts, so that after a restart it holds no relocation
\* counted before the restart.
C21_AggregateIsSumOfArrays ==
    arrays_live =>
       invalid_bitmaps = SumOf(invalid_block_bitmap)
                           + SumOf(invalid_inode_bitmap)
                           + SumOf(invalid_inode_table)

====
